---- MODULE Spec2Model ----
(***************************************************************************)
(* Model of src/app.py: the XML invoice loader process_xml_files (the      *)
(* idempotency gate, the per-file batch loop, the index step), the         *)
(* "Limpar Dados" management action of main, and the per-envelope          *)
(* extractor with safe_float.                                              *)
(*                                                                         *)
(* Spec        : runs of process_xml_files over an uploaded file set.      *)
(* SpecExtract : the extraction loop of one parsed file, field by field.   *)
(***************************************************************************)
EXTENDS Integers, Sequences, FiniteSets, TLC

\* ------------------------------------------------------------------ bounds
MaxFiles == 2       \* files in one upload
MaxRuns == 2        \* calls of process_xml_files under the fingerprint
MaxEnvelopes == 2   \* <Fatura> envelopes in the file being extracted
MaxDets == 2        \* <det> line items in the file being extracted

\* ------------------------------------------------------- program constants
BatchSize == 1000   \* src/app.py:234  len(batch_data) >= 1000

VARIABLES
    \* ---- the loader (process_xml_files, main)
    uploaded_files,   \* the upload: per file, whether it parses and how many records it yields
    db_file,          \* session_<id>.duckdb exists
    table,            \* itens_completos exists
    store,            \* the rows of itens_completos, in insertion order
    indexes,          \* the secondary indexes present
    pc,               \* position of the current call of process_xml_files
    file_idx,         \* enumerate(uploaded_files) position, 1-based
    item_idx,         \* records the current file has emitted so far
    batch_data,       \* the local list batch_data
    dados_completos,  \* len(dados_completos): the list is only ever extended and measured
    result,           \* what the last call gave its caller
    \* ---- history of the runs (read by the properties only)
    runs,             \* calls started so far
    prev,             \* outcome of the call before the current one
    parsed,           \* files parsed by the current call
    inserted,         \* rows inserted by the current call
    batches,          \* executemany calls of the current call that completed
    idx_state,        \* index step of the current call: "none", "ok", "failed"
    failed,           \* the executemany call of the current call that raised, if any
    died,             \* the call that died after committing a batch, if any
    \* ---- the extraction loop of one parsed file
    xpc,              \* "off", "faturas" (envelope loop), "dets" (item loop), "raised", "done"
    nfat,             \* envelopes read so far
    ndet,             \* line items read so far
    fatura,           \* the envelope whose items are being read
    nNF,              \* local nNF
    dhEmi,            \* local dhEmi
    vNF,              \* local vNF
    emitted           \* the tuples appended to batch_data, each with the fragment it came from

lvars == <<uploaded_files, db_file, table, store, indexes, pc, file_idx, item_idx,
           batch_data, dados_completos, result, runs, prev, parsed, inserted,
           batches, idx_state, failed, died>>

xvars == <<xpc, nfat, ndet, fatura, nNF, dhEmi, vNF, emitted>>

vars == <<lvars, xvars>>

\* --------------------------------------------------------------- helpers
Range(s) == {s[i] : i \in 1..Len(s)}

Prefix(s, k) == SubSeq(s, 1, k)

NoResult == [kind |-> "none", count |-> 0, gated |-> FALSE]

NoDeath == [run |-> 0, rows |-> 0]

NoPrev == [kind |-> "none", count |-> 0, rows |-> 0]

NoFailure == [is |-> FALSE, file |-> 0, rows |-> 0, len |-> 0]

\* The record counts a file of the upload may yield.
ItemCounts == {0, 1, BatchSize, 2 * BatchSize + BatchSize \div 2}

\* A file of the upload: one that etree.parse accepts, yielding n records, or
\* one it rejects.
FileSet == {[ok |-> TRUE, n |-> c] : c \in ItemCounts} \cup {[ok |-> FALSE, n |-> 0]}

Uploads == UNION {[1..k -> FileSet] : k \in 1..MaxFiles}

\* Records yielded by the files before file f.
RECURSIVE Offset(_, _)
Offset(files, f) == IF f <= 1 THEN 0 ELSE Offset(files, f - 1) + files[f - 1].n

\* The i-th record of file f: its number among the records of the upload.
RecordId(files, f, i) == Offset(files, f) + i

IndexNames == <<"idx_nNF", "idx_dhEmi", "idx_CFOP", "idx_filename">>

\* Variants of the gate: the comparison turned round, and off by one.
GateSkips_inverted(existing_count) == existing_count < 0

GateSkips_above_one(existing_count) == existing_count > 1

\* existing_count > 0
GateSkips(existing_count) == existing_count > 0

\* len(batch_data) >= 1000
FlushDue(batch) == Len(batch) >= BatchSize

\* Variant of the remainder flush: only a full batch is flushed.
RemainderDue_full_only(batch) == Len(batch) >= BatchSize

\* if batch_data:
RemainderDue(batch) == batch # <<>>

\* The parameter sets at which one executemany call may be rejected.
FailPoints(batch) == {k \in {1, (Len(batch) + 1) \div 2, Len(batch)} : k >= 1}

\* con.executemany(INSERT ..., batch): the statement is executed once per
\* parameter set, each execution committing on its own (no transaction is
\* opened by the caller); a rejected set raises and leaves the rows before it.
ExecuteMany(batch) ==
    {[ok |-> TRUE, rows |-> batch]}
        \cup {[ok |-> FALSE, rows |-> Prefix(batch, k - 1)] : k \in FailPoints(batch)}

\* The four CREATE INDEX statements inside one try: all succeed, or the k-th
\* raises after the ones before it were created.
CreateIndexOutcomes ==
    {[ok |-> TRUE, made |-> Range(IndexNames)]}
        \cup {[ok |-> FALSE, made |-> Range(Prefix(IndexNames, k - 1))] : k \in 1..Len(IndexNames)}

\* Variant of the index step: the exception is not caught.
AfterIndexFailure_raise == "raise"

\* except: pass  -- the position after a failed index step
AfterIndexFailure == "return"

\* An exception leaving process_xml_files, or the process being killed:
\* the locals are gone, the caller gets no count.
Leave(kind) ==
    /\ pc' = "idle"
    /\ result' = [kind |-> kind, count |-> 0, gated |-> FALSE]
    /\ batch_data' = <<>>
    /\ dados_completos' = 0
    /\ file_idx' = 0
    /\ item_idx' = 0

\* The history kept when a call dies: the first call that died after it had
\* committed a batch, and the rows it left.
Death(rows, nbatches) ==
    died' = IF nbatches >= 1 /\ died.run = 0 THEN [run |-> runs, rows |-> rows] ELSE died

\* Variant of a failed insert: the exception is swallowed and the loop goes on
\* with an empty batch.
RaiseInsert_swallowed(batch, rows) ==
    /\ failed' = [is |-> TRUE, file |-> file_idx, rows |-> dados_completos, len |-> Len(batch)]
    /\ batch_data' = <<>>
    /\ item_idx' = IF item_idx < uploaded_files[file_idx].n THEN item_idx + 1 ELSE item_idx
    /\ UNCHANGED <<pc, result, dados_completos, file_idx, died, batches>>

\* executemany raised on batch after inserting rows of it: nothing catches the
\* exception, it passes the finally block and leaves process_xml_files.
RaiseInsert(batch, rows) ==
    /\ Leave("insert_error")
    /\ Death(Len(store) + Len(rows), batches)
    /\ failed' = [is |-> TRUE, file |-> file_idx, rows |-> dados_completos, len |-> Len(batch)]
    /\ UNCHANGED batches

\* ------------------------------------------------- values of the extractor
\* Text is a tuple of one-character strings. A value is what a Python name
\* may hold here: no element (find returned None), None, a str, a float, an
\* int.
Absent == [t |-> "absent", s |-> <<>>, m |-> 0, e |-> 0]

None == [t |-> "none", s |-> <<>>, m |-> 0, e |-> 0]

Str(s) == [t |-> "str", s |-> s, m |-> 0, e |-> 0]

\* The float m / 10^e, m not a multiple of 10 unless e = 0.
Float(m, e) == [t |-> "float", s |-> <<>>, m |-> m, e |-> e]

IntVal(v) == [t |-> "int", s |-> <<>>, m |-> v, e |-> 0]

Digits == <<"0", "1", "2", "3", "4", "5", "6", "7", "8", "9">>

IsDigit(c) == \E i \in 1..Len(Digits) : Digits[i] = c

DigitVal(c) == (CHOOSE i \in 1..Len(Digits) : Digits[i] = c) - 1

AllDigits(s) == \A i \in 1..Len(s) : IsDigit(s[i])

RECURSIVE DigitsVal(_)
DigitsVal(s) ==
    IF s = <<>> THEN 0
    ELSE DigitsVal(SubSeq(s, 1, Len(s) - 1)) * 10 + DigitVal(s[Len(s)])

RECURSIVE Normalize(_, _)
Normalize(m, e) ==
    IF e > 0 /\ m % 10 = 0 THEN Normalize(m \div 10, e - 1) ELSE Float(m, e)

Signed(s) == s # <<>> /\ s[1] \in {"-", "+"}

Unsigned(s) == IF Signed(s) THEN Tail(s) ELSE s

SignOf(s) == IF s # <<>> /\ s[1] = "-" THEN -1 ELSE 1

\* float(str): sign, digits, at most one point, at least one digit; anything
\* else raises ValueError (ok = FALSE).
ParseFloat(s) ==
    LET body == Unsigned(s)
        dots == {i \in 1..Len(body) : body[i] = "."}
    IN  IF Cardinality(dots) > 1 THEN [ok |-> FALSE, v |-> None]
        ELSE LET d == IF dots = {} THEN Len(body) + 1 ELSE CHOOSE i \in dots : TRUE
                 ip == SubSeq(body, 1, d - 1)
                 fp == SubSeq(body, d + 1, Len(body))
             IN  IF Len(ip) + Len(fp) = 0 \/ ~AllDigits(ip \o fp)
                   THEN [ok |-> FALSE, v |-> None]
                   ELSE [ok |-> TRUE,
                         v |-> Normalize(SignOf(s) * DigitsVal(ip \o fp), Len(fp))]

\* float(value): a float is returned as it is, a str is parsed, None raises
\* TypeError.
PyFloat(value) ==
    IF value.t = "float" THEN [ok |-> TRUE, v |-> value]
    ELSE IF value.t = "str" THEN ParseFloat(value.s)
    ELSE [ok |-> FALSE, v |-> None]

\* int(text): sign and digits; None raises TypeError, other text ValueError.
PyInt(value) ==
    IF value.t = "str" /\ Unsigned(value.s) # <<>> /\ AllDigits(Unsigned(value.s))
      THEN [ok |-> TRUE, v |-> IntVal(SignOf(value.s) * DigitsVal(Unsigned(value.s)))]
      ELSE [ok |-> FALSE, v |-> None]

\* Python truth value: None, "" and 0.0 are false.
Truthy(value) ==
    \/ value.t = "str" /\ value.s # <<>>
    \/ value.t = "float" /\ value.m # 0
    \/ value.t = "int" /\ value.m # 0

\* try: return float(value) if value else None  except Exception: return None
safe_float(value) ==
    IF Truthy(value)
      THEN (IF PyFloat(value).ok THEN PyFloat(value).v ELSE None)
      ELSE None

\* An element is given by its text: Absent when there is no such element,
\* None when it is empty, else a str.
\* parent.findtext(path, default=...): the default when absent, '' when empty.
FindText(el, default) ==
    IF el.t = "absent" THEN default
    ELSE IF el.t = "none" THEN Str(<<>>)
    ELSE el

\* el.text if el is not None else None
TextOrNone(el) == IF el.t = "absent" THEN None ELSE el

ICMS00 == <<"I", "C", "M", "S", "0", "0">>

ICMS20 == <<"I", "C", "M", "S", "2", "0">>

\* Variant of the priority list: the two tags swapped.
icms_tags_reversed == <<ICMS20, ICMS00>>

\* Tags ICMS para busca
icms_tags == <<ICMS00, ICMS20>>

\* tag.split("ICMS")[1]
TagSuffix(tag) == SubSeq(tag, 5, Len(tag))

\* tag_imposto.find(".//ns:<tag>/ns:vICMS"): the vICMS of the first <tag>
\* element, in document order, that has one.
FindVICMS(variants, tag) ==
    LET hits == {i \in 1..Len(variants) :
                    variants[i].tag = tag /\ variants[i].vICMS.t # "absent"}
    IN  IF hits = {} THEN Absent
        ELSE variants[CHOOSE i \in hits : \A j \in hits : i <= j].vICMS

\* The loop over icms_tags from position k on: the first tag with a hit fixes
\* vicms and ICMS_CODE; without one they keep "0" and "-".
RECURSIVE ResolveICMS(_, _)
ResolveICMS(variants, k) ==
    IF k > Len(icms_tags) THEN [vicms |-> Str(<<"0">>), ICMS_CODE |-> <<"-">>]
    ELSE IF FindVICMS(variants, icms_tags[k]).t # "absent"
      THEN [vicms |-> FindVICMS(variants, icms_tags[k]),
            ICMS_CODE |-> TagSuffix(icms_tags[k])]
      ELSE ResolveICMS(variants, k + 1)

\* cClass_text[:3] if cClass_text else None
ClassOf(cClass_text) ==
    IF Truthy(cClass_text)
      THEN Str(SubSeq(cClass_text.s, 1, IF Len(cClass_text.s) < 3 THEN Len(cClass_text.s) ELSE 3))
      ELSE None

\* total_info.findtext("ns:vNF") if total_info is not None else None
TotalText(f) == IF f.total THEN FindText(f.vNF, None) ELSE None

\* The header checks of an envelope all pass: NFComVivo, ide, nNF, dhEmi are
\* there and int(nNF_elem.text) succeeds.
HeaderOK(f) ==
    f.core /\ f.ide /\ f.nNF.t # "absent" /\ f.dhEmi.t # "absent" /\ PyInt(f.nNF).ok

NoFatura == [core |-> FALSE, ide |-> FALSE, nNF |-> Absent, dhEmi |-> Absent,
             total |-> FALSE, vNF |-> Absent]

ExtractorAt(p) ==
    /\ xpc = p
    /\ nfat = 0
    /\ ndet = 0
    /\ fatura = NoFatura
    /\ nNF = None
    /\ dhEmi = None
    /\ vNF = None
    /\ emitted = <<>>

\* --------------------------------------------- inputs of the extractor
T_0 == <<"0">>

T_0_00 == <<"0", ".", "0", "0">>

T_12_5 == <<"1", "2", ".", "5">>

T_100_00 == <<"1", "0", "0", ".", "0", "0">>

T_10_00 == <<"1", "0", ".", "0", "0">>

T_7_5 == <<"7", ".", "5">>

T_abc == <<"a", "b", "c">>

T_12c5 == <<"1", "2", ",", "5">>

T_neg3 == <<"-", "3">>

T_42 == <<"4", "2">>

T_date == <<"2", "0", "2", "4", "-", "0", "1", "-", "0", "1">>

BaseFatura == [core |-> TRUE, ide |-> TRUE, nNF |-> Str(T_42), dhEmi |-> Str(T_date),
               total |-> TRUE, vNF |-> Str(T_100_00)]

\* The envelopes a file may hold: a well-formed one with each shape of
\* totals block, and one for each way the header may be broken.
FaturaSet ==
    {[BaseFatura EXCEPT !.vNF = Str(x)] : x \in {T_0, T_0_00, T_100_00, T_abc}}
        \cup {[BaseFatura EXCEPT !.vNF = Absent],
              [BaseFatura EXCEPT !.total = FALSE, !.vNF = Absent],
              [BaseFatura EXCEPT !.core = FALSE, !.ide = FALSE, !.nNF = Absent, !.dhEmi = Absent],
              [BaseFatura EXCEPT !.ide = FALSE, !.nNF = Absent, !.dhEmi = Absent],
              [BaseFatura EXCEPT !.nNF = Absent],
              [BaseFatura EXCEPT !.dhEmi = Absent],
              [BaseFatura EXCEPT !.nNF = Str(T_abc)],
              [BaseFatura EXCEPT !.nNF = None]}

Variant(tag, vICMS) == [tag |-> tag, vICMS |-> vICMS]

BaseDet == [nItem |-> Str(<<"1">>), prod |-> TRUE, CFOP |-> Str(<<"5", "1", "0", "2">>),
            cClass |-> Str(<<"1", "2", "3", "4", "5">>),
            vProd |-> Str(T_12_5), vBC |-> Str(T_12_5), vDesc |-> Str(T_0_00),
            vOutro |-> Str(T_0), imposto |-> TRUE, indDevolucao |-> Absent,
            indSemCST |-> Absent, pis_CST |-> Str(<<"0", "1">>), pis_vBC |-> Str(T_12_5),
            cofins_CST |-> Str(<<"0", "1">>), cofins_vBC |-> Str(T_0_00),
            icms |-> <<Variant(ICMS00, Str(T_10_00))>>]

BareDet == [nItem |-> None, prod |-> TRUE, CFOP |-> Absent, cClass |-> Absent,
            vProd |-> Absent, vBC |-> Absent, vDesc |-> Absent, vOutro |-> Absent,
            imposto |-> TRUE, indDevolucao |-> Absent, indSemCST |-> Absent,
            pis_CST |-> Absent, pis_vBC |-> Absent, cofins_CST |-> Absent,
            cofins_vBC |-> Absent, icms |-> <<>>]

\* The line items an envelope may hold: complete, bare, without product or
\* tax block, with text that is no number, and with each arrangement of ICMS
\* variants.
DetSet ==
    {BaseDet, BareDet,
     [BareDet EXCEPT !.prod = FALSE],
     [BaseDet EXCEPT !.imposto = FALSE, !.pis_CST = Absent, !.pis_vBC = Absent,
                     !.cofins_CST = Absent, !.cofins_vBC = Absent, !.icms = <<>>],
     [BaseDet EXCEPT !.vProd = Str(T_abc), !.vBC = None, !.vDesc = Str(T_12c5),
                     !.vOutro = Str(T_neg3), !.pis_vBC = None, !.cofins_vBC = Absent,
                     !.icms = <<Variant(ICMS20, Str(T_7_5))>>],
     [BaseDet EXCEPT !.icms = <<Variant(ICMS00, Str(T_10_00)), Variant(ICMS20, Str(T_7_5))>>],
     [BaseDet EXCEPT !.icms = <<Variant(ICMS20, Str(T_7_5)), Variant(ICMS00, Str(T_10_00))>>],
     [BaseDet EXCEPT !.icms = <<Variant(ICMS00, Absent), Variant(ICMS20, Str(T_7_5))>>],
     [BaseDet EXCEPT !.icms = <<Variant(ICMS00, None)>>],
     [BaseDet EXCEPT !.icms = <<Variant(ICMS00, Str(T_0))>>]}

\* ------------------------------------------------------------------ Init
LoaderAt(files) ==
    /\ uploaded_files = files
    /\ db_file = FALSE
    /\ table = FALSE
    /\ store = <<>>
    /\ indexes = {}
    /\ pc = "idle"
    /\ file_idx = 0
    /\ item_idx = 0
    /\ batch_data = <<>>
    /\ dados_completos = 0
    /\ result = NoResult
    /\ runs = 0
    /\ prev = NoPrev
    /\ parsed = 0
    /\ inserted = 0
    /\ batches = 0
    /\ idx_state = "none"
    /\ failed = NoFailure
    /\ died = NoDeath

Init ==
    /\ \E files \in Uploads : LoaderAt(files)
    /\ ExtractorAt("off")

\* --------------------------------------------------------------- actions

\* main calls process_xml_files(uploaded_files, session_id): connect, the
\* gate, CREATE TABLE IF NOT EXISTS.
StartRun ==
    /\ pc = "idle"
    /\ runs < MaxRuns
    /\ runs' = runs + 1
    /\ prev' = [kind |-> result.kind, count |-> result.count, rows |-> Len(store)]
    /\ db_file' = TRUE
    /\ parsed' = 0
    /\ inserted' = 0
    /\ batches' = 0
    /\ idx_state' = "none"
    /\ failed' = NoFailure
    /\ IF table /\ GateSkips(Len(store))
         THEN /\ pc' = "idle"
              /\ result' = [kind |-> "returned", count |-> Len(store), gated |-> TRUE]
              /\ UNCHANGED <<table, file_idx, dados_completos>>
         ELSE /\ pc' = "file"
              /\ table' = TRUE
              /\ file_idx' = 1
              /\ dados_completos' = 0
              /\ result' = NoResult
    /\ UNCHANGED <<xvars, uploaded_files, store, indexes, item_idx, batch_data, died>>

\* Top of the file loop: the temp file and etree.parse, then batch_data = [].
ParseFile ==
    /\ pc = "file"
    /\ IF uploaded_files[file_idx].ok
         THEN /\ pc' = "items"
              /\ batch_data' = <<>>
              /\ item_idx' = 0
              /\ parsed' = parsed + 1
              /\ UNCHANGED <<result, dados_completos, file_idx, died>>
         ELSE /\ Leave("parse_error")
              /\ Death(Len(store), batches)
              /\ UNCHANGED parsed
    /\ UNCHANGED <<xvars, uploaded_files, db_file, table, store, indexes, runs, prev,
                   inserted, batches, idx_state, failed>>

\* One emitted record: batch_data.append(...), then the flush when the batch
\* is full.
ItemStep ==
    /\ pc = "items"
    /\ item_idx < uploaded_files[file_idx].n
    /\ LET batch == Append(batch_data, RecordId(uploaded_files, file_idx, item_idx + 1)) IN
       IF FlushDue(batch)
         THEN \E out \in ExecuteMany(batch) :
                /\ store' = store \o out.rows
                /\ inserted' = inserted + Len(out.rows)
                /\ IF out.ok
                     THEN /\ dados_completos' = dados_completos + Len(batch)
                          /\ batch_data' = <<>>
                          /\ item_idx' = item_idx + 1
                          /\ batches' = batches + 1
                          /\ UNCHANGED <<pc, result, file_idx, died, failed>>
                     ELSE RaiseInsert(batch, out.rows)
         ELSE /\ batch_data' = batch
              /\ item_idx' = item_idx + 1
              /\ UNCHANGED <<store, inserted, dados_completos, batches, pc, result,
                             file_idx, died, failed>>
    /\ UNCHANGED <<xvars, uploaded_files, db_file, table, indexes, runs, prev, parsed, idx_state>>

\* After the last record of the file: the remainder flush, the finally
\* block, the progress bar, on to the next file or to the index step.
FileEnd ==
    /\ pc = "items"
    /\ item_idx = uploaded_files[file_idx].n
    /\ \E out \in (IF RemainderDue(batch_data)
                     THEN ExecuteMany(batch_data)
                     ELSE {[ok |-> TRUE, rows |-> <<>>]}) :
         /\ store' = store \o out.rows
         /\ inserted' = inserted + Len(out.rows)
         /\ IF out.ok
              THEN /\ dados_completos' = dados_completos + Len(out.rows)
                   /\ batches' = batches + (IF RemainderDue(batch_data) THEN 1 ELSE 0)
                   /\ file_idx' = file_idx + 1
                   /\ pc' = IF file_idx < Len(uploaded_files) THEN "file" ELSE "index"
                   /\ UNCHANGED <<batch_data, item_idx, result, died, failed>>
              ELSE RaiseInsert(batch_data, out.rows)
    /\ UNCHANGED <<xvars, uploaded_files, db_file, table, indexes, runs, prev, parsed, idx_state>>

\* try: CREATE INDEX IF NOT EXISTS x 4  except: pass
CreateIndexes ==
    /\ pc = "index"
    /\ \E out \in CreateIndexOutcomes :
         /\ indexes' = indexes \cup out.made
         /\ idx_state' = IF out.ok THEN "ok" ELSE "failed"
         /\ IF out.ok \/ AfterIndexFailure = "return"
              THEN /\ pc' = "return"
                   /\ UNCHANGED <<result, batch_data, dados_completos, file_idx, item_idx, died>>
              ELSE /\ Leave("index_error")
                   /\ Death(Len(store), batches)
    /\ UNCHANGED <<xvars, uploaded_files, db_file, table, store, runs, prev, parsed,
                   inserted, batches, failed>>

\* return con, len(dados_completos)
Return ==
    /\ pc = "return"
    /\ pc' = "idle"
    /\ result' = [kind |-> "returned", count |-> dados_completos, gated |-> FALSE]
    /\ batch_data' = <<>>
    /\ dados_completos' = 0
    /\ file_idx' = 0
    /\ item_idx' = 0
    /\ UNCHANGED <<xvars, uploaded_files, db_file, table, store, indexes, runs, prev, parsed,
                   inserted, batches, idx_state, failed, died>>

\* The script run is stopped between two steps of the call (the user aborts,
\* the process is killed): what was committed stays.
Abort ==
    /\ pc \in {"file", "items", "index", "return"}
    /\ Leave("dead")
    /\ Death(Len(store), batches)
    /\ UNCHANGED <<xvars, uploaded_files, db_file, table, store, indexes, runs, prev, parsed,
                   inserted, batches, idx_state, failed>>

\* The "Limpar Dados" button: unlink the database file of the session.
Delete ==
    /\ pc = "idle"
    /\ runs >= 1
    /\ db_file
    /\ db_file' = FALSE
    /\ table' = FALSE
    /\ store' = <<>>
    /\ indexes' = {}
    /\ result' = NoResult
    /\ died' = NoDeath
    /\ prev' = NoPrev
    /\ failed' = NoFailure
    /\ UNCHANGED <<xvars, uploaded_files, pc, file_idx, item_idx, batch_data, dados_completos,
                   runs, parsed, inserted, batches, idx_state>>

Next ==
    \/ StartRun
    \/ ParseFile
    \/ ItemStep
    \/ FileEnd
    \/ CreateIndexes
    \/ Return
    \/ Abort
    \/ Delete

Spec == Init /\ [][Next]_vars

\* ------------------------------------------------- extractor: actions

\* for fatura in tree.findall("Fatura"): the header of the next envelope, up
\* to the totals block.
NextFatura ==
    /\ xpc = "faturas"
    /\ nfat < MaxEnvelopes
    /\ \E f \in FaturaSet :
         /\ nfat' = nfat + 1
         /\ fatura' = f
         /\ IF ~f.core
              THEN \* nf_com_vivo is None: nf_com_vivo.find raises AttributeError
                   /\ xpc' = "raised"
                   /\ emitted' = <<>>
                   /\ UNCHANGED <<nNF, dhEmi, vNF>>
              ELSE IF ~HeaderOK(f)
              THEN \* continue
                   UNCHANGED <<xpc, nNF, dhEmi, vNF, emitted>>
              ELSE /\ nNF' = PyInt(f.nNF).v
                   /\ dhEmi' = f.dhEmi
                   /\ vNF' = TotalText(f)
                   /\ xpc' = "dets"
                   /\ UNCHANGED emitted
    /\ UNCHANGED <<ndet, lvars>>

\* The tuple appended to batch_data for det, given the coerced vNF; src is the
\* fragment it was read from.
Tuple(det, vNF_coerced) ==
    [nNF |-> nNF,
     dhEmi |-> dhEmi,
     nItem |-> det.nItem,
     CFOP |-> FindText(det.CFOP, Str(<<"0", "0", "0", "0">>)),
     cClass |-> ClassOf(FindText(det.cClass, None)),
     vProd |-> safe_float(FindText(det.vProd, None)),
     vBC |-> safe_float(FindText(det.vBC, None)),
     vDesc |-> safe_float(FindText(det.vDesc, None)),
     vOutro |-> safe_float(FindText(det.vOutro, None)),
     vNF |-> vNF_coerced,
     pis_cst |-> TextOrNone(det.pis_CST),
     cofins_cst |-> TextOrNone(det.cofins_CST),
     pis_vbc |-> safe_float(TextOrNone(det.pis_vBC)),
     cofins_vbc |-> safe_float(TextOrNone(det.cofins_vBC)),
     vicms |-> safe_float(ResolveICMS(det.icms, 1).vicms),
     ICMS_CODE |-> ResolveICMS(det.icms, 1).ICMS_CODE,
     indicador_devolucao |-> FindText(det.indDevolucao, Str(<<"0">>)),
     ind_sem_cst |-> FindText(det.indSemCST, Str(<<"-">>)),
     src |-> [env |-> nfat, fatura |-> fatura, det |-> det]]

\* for det in fatura.findall(".//ns:det"): one line item, skipped or emitted.
NextDet ==
    /\ xpc = "dets"
    /\ ndet < MaxDets
    /\ \E det \in DetSet :
         /\ ndet' = ndet + 1
         /\ IF ~det.prod \/ ~det.imposto
              THEN UNCHANGED <<vNF, emitted>>
              ELSE /\ vNF' = safe_float(vNF)
                   /\ emitted' = Append(emitted, Tuple(det, safe_float(vNF)))
    /\ UNCHANGED <<xpc, nfat, fatura, nNF, dhEmi, lvars>>

\* The envelope has no further line item.
EndFatura ==
    /\ xpc = "dets"
    /\ xpc' = "faturas"
    /\ UNCHANGED <<nfat, ndet, fatura, nNF, dhEmi, vNF, emitted, lvars>>

\* The file has no further envelope.
EndFile ==
    /\ xpc = "faturas"
    /\ xpc' = "done"
    /\ UNCHANGED <<nfat, ndet, fatura, nNF, dhEmi, vNF, emitted, lvars>>

NextExtract ==
    \/ NextFatura
    \/ NextDet
    \/ EndFatura
    \/ EndFile

\* The loader stands still while one file is extracted.
InitExtract ==
    /\ LoaderAt(<<[ok |-> TRUE, n |-> 0]>>)
    /\ ExtractorAt("faturas")

SpecExtract == InitExtract /\ [][NextExtract]_vars

\* ================================================================ claims

\* Records the whole upload yields.
TotalItems == Offset(uploaded_files, Len(uploaded_files) + 1)

\* Rows of the store that came from file f.
RowsOfFile(f) ==
    Cardinality({i \in 1..Len(store) :
                    /\ Offset(uploaded_files, f) < store[i]
                    /\ store[i] <= Offset(uploaded_files, f + 1)})

\* The coercion as the specification words it: null for null, for "" and for
\* text that is no number, else the number the text denotes.
Coercion(text) ==
    IF text.t = "str" /\ ParseFloat(text.s).ok THEN ParseFloat(text.s).v ELSE None

\* ---------------------------------------------------------------- C1
\* C1: a call that directly follows a call that returned (same upload, same
\* fingerprint, no delete in between) inserts no row, leaves the store with
\* the rows it had and without duplicates, raises nothing, and when it returns
\* it returns the count the first call returned.
C1_SecondRunIdempotent ==
    prev.kind = "returned" =>
        /\ inserted = 0
        /\ Len(store) = prev.rows
        /\ Cardinality(Range(store)) = Len(store)
        /\ result.kind \notin {"parse_error", "insert_error", "index_error"}
        /\ (pc = "idle" /\ result.kind = "returned" => result.count = prev.count)

\* A second call has returned after a first call that loaded more than one batch.
C1_Witness ==
    /\ prev.kind = "returned"
    /\ prev.count > BatchSize
    /\ pc = "idle"
    /\ result.kind = "returned"
    /\ result.gated
    /\ Len(store) = prev.count

\* ---------------------------------------------------------------- C2
\* C2: when a call that passed the gate (the store was empty) has returned,
\* the store holds each of the N records of the upload exactly once, whatever
\* N is against the batch size, and N is the count returned.
C2_ExactlyNRows ==
    pc = "idle" /\ result.kind = "returned" /\ ~result.gated =>
        /\ Len(store) = TotalItems
        /\ Range(store) = 1..TotalItems
        /\ result.count = TotalItems

\* Two files, 1000 and 2500 records: full flushes in both, a remainder in one.
C2_Witness ==
    /\ pc = "idle"
    /\ result.kind = "returned"
    /\ ~result.gated
    /\ Len(uploaded_files) = 2
    /\ TotalItems = 3 * BatchSize + BatchSize \div 2
    /\ Len(store) = TotalItems

\* ---------------------------------------------------------------- C3
\* C3: all records emitted for one envelope carry the same invoice total, the
\* coercion of the text read from its totals block (zero totals included).
C3_InvoiceTotalShared ==
    \A i, j \in 1..Len(emitted) :
        emitted[i].src.env = emitted[j].src.env =>
            /\ emitted[i].vNF = emitted[j].vNF
            /\ emitted[i].vNF = Coercion(TotalText(emitted[i].src.fatura))

\* ---------------------------------------------------------------- C4
\* C4: an envelope whose header lacks an expected element, or whose number is
\* no integer, and a line item without product or tax block, yield no record
\* and no error: the extractor never raises.
C4_MalformedOmittedSilently ==
    /\ xpc # "raised"
    /\ \A i \in 1..Len(emitted) :
           /\ HeaderOK(emitted[i].src.fatura)
           /\ emitted[i].src.det.prod
           /\ emitted[i].src.det.imposto

\* ---------------------------------------------------------------- C5
\* A variant tag of the tax block that has a value element.
HasValue(variants, tag) ==
    \E k \in 1..Len(variants) : variants[k].tag = tag /\ variants[k].vICMS.t # "absent"

\* The value element of the first such variant.
ValueOf(variants, tag) ==
    variants[CHOOSE k \in 1..Len(variants) :
                /\ variants[k].tag = tag /\ variants[k].vICMS.t # "absent"
                /\ \A l \in 1..(k - 1) :
                      ~(variants[l].tag = tag /\ variants[l].vICMS.t # "absent")].vICMS

\* C5: ICMS00 wins over ICMS20 whatever their order in the document; ICMS20
\* is taken when it alone has a value; with neither the value is 0.0 and the
\* code "-".
C5_IcmsPriority ==
    \A i \in 1..Len(emitted) :
        LET r == emitted[i]
            v == r.src.det.icms
        IN  /\ HasValue(v, ICMS00) =>
                r.ICMS_CODE = <<"0", "0">> /\ r.vicms = safe_float(ValueOf(v, ICMS00))
            /\ ~HasValue(v, ICMS00) /\ HasValue(v, ICMS20) =>
                r.ICMS_CODE = <<"2", "0">> /\ r.vicms = safe_float(ValueOf(v, ICMS20))
            /\ ~HasValue(v, ICMS00) /\ ~HasValue(v, ICMS20) =>
                r.ICMS_CODE = <<"-">> /\ r.vicms = Float(0, 0)

\* A record was emitted for a tax block that lists ICMS20 before ICMS00, both
\* with a value, and one for a block with neither.
C5_Witness ==
    /\ \E i \in 1..Len(emitted) :
          LET v == emitted[i].src.det.icms
          IN  Len(v) = 2 /\ v[1].tag = ICMS20 /\ v[1].vICMS.t = "str"
                /\ v[2].tag = ICMS00 /\ v[2].vICMS.t = "str"
                /\ emitted[i].ICMS_CODE = <<"0", "0">>
    /\ \E i \in 1..Len(emitted) : emitted[i].src.det.icms = <<>>

\* ---------------------------------------------------------------- C6
\* Values safe_float is tried on.
SampleValues ==
    {None, Str(<<>>), Str(T_0), Str(T_0_00), Str(T_12_5), Str(T_100_00), Str(T_abc),
     Str(T_12c5), Str(T_neg3), Str(<<".">>), Str(<<"-">>)}

\* C6: safe_float is the coercion (null for null, "" and non-numbers, the
\* number otherwise, 0.0 for "0"), and every numeric field of every record is
\* the coercion of its source text.
C6_NumericFieldsCoerced ==
    /\ \A v \in SampleValues : safe_float(v) = Coercion(v)
    /\ safe_float(Str(T_0)) = Float(0, 0)
    /\ safe_float(Str(T_0_00)) = Float(0, 0)
    /\ \A i \in 1..Len(emitted) :
          LET r == emitted[i]
              d == r.src.det
          IN  /\ r.vProd = Coercion(FindText(d.vProd, None))
              /\ r.vBC = Coercion(FindText(d.vBC, None))
              /\ r.vDesc = Coercion(FindText(d.vDesc, None))
              /\ r.vOutro = Coercion(FindText(d.vOutro, None))
              /\ r.vNF = Coercion(TotalText(r.src.fatura))
              /\ r.pis_vbc = Coercion(TextOrNone(d.pis_vBC))
              /\ r.cofins_vbc = Coercion(TextOrNone(d.cofins_vBC))
              /\ r.vicms = Coercion(ResolveICMS(d.icms, 1).vicms)

\* ---------------------------------------------------------------- C7
\* C7: the store holds whole batches only: of each file either a multiple of
\* the batch size or all its records.
C7_WholeBatchesOnly ==
    \A f \in 1..Len(uploaded_files) :
        RowsOfFile(f) % BatchSize = 0 \/ RowsOfFile(f) = uploaded_files[f].n

\* ---------------------------------------------------------------- C8
\* C8: once an executemany call has raised, the call of process_xml_files is
\* over with that error and without a count; no file after the failing one was
\* parsed, no row beyond the failing batch was inserted, and the batches
\* committed before it are all in the store.
C8_InsertFailureStopsRun ==
    failed.is =>
        /\ pc = "idle"
        /\ result.kind = "insert_error"
        /\ parsed = failed.file
        /\ inserted = Len(store)
        /\ failed.rows <= Len(store)
        /\ Len(store) < failed.rows + failed.len
        /\ \A i \in 1..failed.rows : store[i] = i

\* The insert failed after at least one batch was committed, in a file that is
\* not the last of the upload.
C8_Witness ==
    /\ failed.is
    /\ failed.rows >= BatchSize
    /\ failed.file < Len(uploaded_files)
    /\ result.kind = "insert_error"

\* ---------------------------------------------------------------- C9
\* C9: after a call died having committed a batch, every later call (until
\* the store is deleted) is stopped by the gate: it parses no file, inserts no
\* row and returns the partial row count as its result.
C9_PartialLoadIsFrozen ==
    died.run > 0 /\ runs > died.run =>
        /\ pc = "idle"
        /\ result = [kind |-> "returned", count |-> died.rows, gated |-> TRUE]
        /\ Len(store) = died.rows
        /\ parsed = 0
        /\ inserted = 0

\* A later call has returned the partial count while records are missing.
C9_Witness ==
    /\ died.run > 0
    /\ runs > died.run
    /\ died.rows < TotalItems
    /\ result.kind = "returned"
    /\ result.count = died.rows

\* --------------------------------------------------------------- C10
\* C10: the index step is not reached before the last file's final flush: at
\* the file and item loops no index was attempted, and once attempted every
\* file was parsed and every record is in the store; a failed index step
\* raises nothing, and the call returns the full count with the store intact.
C10_IndexesAfterLoad ==
    /\ pc \in {"file", "items", "index"} => idx_state = "none"
    /\ pc = "return" =>
          /\ idx_state # "none"
          /\ parsed = Len(uploaded_files)
          /\ file_idx = Len(uploaded_files) + 1
          /\ dados_completos = TotalItems
          /\ Len(store) = TotalItems
    /\ idx_state = "failed" =>
          /\ result.kind # "index_error"
          /\ (pc = "idle" /\ result.kind = "returned" =>
                 ~result.gated /\ result.count = TotalItems /\ Len(store) = TotalItems)

\* A call returned more than one batch of records although its index step failed.
C10_Witness ==
    /\ idx_state = "failed"
    /\ pc = "idle"
    /\ result.kind = "returned"
    /\ result.count > BatchSize
    /\ Len(store) = result.count

====
